---- MODULE Spec2Model ----
(***************************************************************************)
(* A model of nuitka/utils/FileOperations.py: the lazily created process   *)
(* lock (_with_file_Lock), the lock-protected operations makePath,         *)
(* deleteFile and removeDirectory with its retry handler, and renameFile.  *)
(*                                                                         *)
(* The filesystem of the lock-protected operations is one directory "d"    *)
(* (path 0) holding the files 1..NumFiles, and one unrelated directory     *)
(* path "u" (path UPath).  Every delete of an entry can fail transiently:  *)
(* failsLeft[e] is the number of deletes of e that will still fail.        *)
(***************************************************************************)
EXTENDS Naturals, Sequences, FiniteSets, TLC

\* ------------------------------------------------------------- bounds
NumThreads == 2
NumFiles == 2
MaxFails == 4
NumContents == 2
NumModes == 2

\* time.sleep(0.1) of onError, in milliseconds
SleepMs == 100

Threads == 1..NumThreads
Files == 1..NumFiles
Entries == 0..NumFiles
UPath == NumFiles + 1
Paths == 0..UPath
\* rmtree's positions: 0 is os.listdir(path), a file's number is its
\* os.remove, RmDirIdx is the final os.rmdir(path)
RmDirIdx == NumFiles + 1

VARIABLES
    file_lock,   \* the module global: 0 is None, n > 0 is the n-th Lock created
    locks,       \* locks[n]: whether the n-th Lock object is currently locked
    pc,          \* each thread's position
    call,        \* each thread's call: [op, path, flag]
    lk,          \* the lock object a thread loaded from file_lock to acquire
    result,      \* "none", "ok", or the exception (pending or raised)
    exists,      \* the filesystem: which paths exist
    failsLeft,   \* transient failures left for the deletes of each entry
    plan,        \* failsLeft as it was at the start (history)
    exists0,     \* exists as it was at the start (history)
    unlinks,     \* per thread, the os.unlink calls deleteFile has made (history)
    names,       \* rmtree's os.listdir snapshot
    idx,         \* rmtree's position (see RmDirIdx)
    pass,        \* 0: no rmtree yet, 1: the rmtree with onError, 2: the suppressed one
    log,         \* per entry, the outcomes of removeDirectory's deletes (history)
    sleeps,      \* per entry, the number of 100 ms sleeps of onError (history)
    rpc,         \* renameFile's position
    rfs,         \* renameFile's two paths: [src, dst], each a file or NoFile
    old_stat,    \* the st_mode captured by os.stat(source_filename)
    rres,        \* renameFile's result
    src0,        \* the source file as it was at the start (history)
    rsteps       \* the filesystem calls renameFile has made (history)

lockVars == <<file_lock, locks, lk>>
thrVars == <<pc, call, result>>
fsVars == <<exists, failsLeft>>
rmVars == <<names, idx, pass, log, sleeps>>
renVars == <<rpc, rfs, old_stat, rres, src0, rsteps>>
hist == <<plan, exists0>>
vars == <<file_lock, locks, pc, call, lk, result, exists, failsLeft, plan, exists0, unlinks,
          names, idx, pass, log, sleeps, rpc, rfs, old_stat, rres, src0, rsteps>>

\* --------------------------------------------------------- filesystem
IsFile(p) == p \in Files /\ exists[p]
IsDir(p) == p \notin Files /\ exists[p]
DirNotEmpty == \E f \in Files : exists[f]

\* os.unlink / os.remove / os.rmdir of entry e fails
DeleteFails(e) ==
    \/ ~exists[e]
    \/ e = 0 /\ DirNotEmpty
    \/ failsLeft[e] > 0

DeleteError(e) == IF ~exists[e] THEN "NotFound" ELSE "OSError"

ExistsAfterDelete(e) ==
    IF DeleteFails(e) THEN exists ELSE [exists EXCEPT ![e] = FALSE]

FailsLeftAfterDelete(e) ==
    IF exists[e] /\ ~(e = 0 /\ DirNotEmpty) /\ failsLeft[e] > 0
    THEN [failsLeft EXCEPT ![e] = @ - 1]
    ELSE failsLeft

\* ------------------------------------------------------------- calls
Calls ==
    [op : {"makePath"}, path : {0, UPath}, flag : {FALSE}]
    \cup [op : {"deleteFile"}, path : Paths, flag : BOOLEAN]
    \cup [op : {"removeDirectory"}, path : {0}, flag : BOOLEAN]

NoCall == [op |-> "none", path |-> 0, flag |-> FALSE]

BodyStart(op) ==
    CASE op = "makePath" -> "mk_isdir"
      [] op = "deleteFile" -> "del_check"
      [] op = "removeDirectory" -> "rm_exists"

BodyPcs == {"mk_isdir", "mk_makedirs", "del_check", "del_unlink", "rm_exists",
            "rm_try", "rm_retry", "rm_sleep", "rm_final", "rm_except"}

\* between file_lock.acquire() and file_lock.release()
InBody(t) == pc[t] \in BodyPcs \cup {"lock_release"}

\* ---------------------------------------------------- _with_file_Lock
\* Lock(): a new, unlocked lock object
NewLocks == Append(locks, FALSE)

\* Lock.acquire() returns only when the lock is unlocked
CanAcquire(l) == ~locks[l]

\* Lock.release() of an unlocked lock raises
ReleaseRaises(l) == ~locks[l]

Call(t) ==
    /\ pc[t] = "idle"
    /\ \E c \in Calls : call' = [call EXCEPT ![t] = c]
    /\ pc' = [pc EXCEPT ![t] = "lock_check"]
    /\ UNCHANGED <<lockVars, result, fsVars, hist, unlinks, rmVars, renVars>>

LockCheck(t) ==
    /\ pc[t] = "lock_check"
    /\ pc' = [pc EXCEPT ![t] = IF file_lock = 0 THEN "lock_create" ELSE "lock_load"]
    /\ UNCHANGED <<lockVars, call, result, fsVars, hist, unlinks, rmVars, renVars>>

LockCreate(t) ==
    /\ pc[t] = "lock_create"
    /\ locks' = NewLocks
    /\ file_lock' = Len(locks')
    /\ pc' = [pc EXCEPT ![t] = "lock_load"]
    /\ UNCHANGED <<lk, call, result, fsVars, hist, unlinks, rmVars, renVars>>

LockLoad(t) ==
    /\ pc[t] = "lock_load"
    /\ lk' = [lk EXCEPT ![t] = file_lock]
    /\ pc' = [pc EXCEPT ![t] = "lock_acquire"]
    /\ UNCHANGED <<file_lock, locks, call, result, fsVars, hist, unlinks, rmVars, renVars>>

LockAcquire(t) ==
    /\ pc[t] = "lock_acquire"
    /\ CanAcquire(lk[t])
    /\ locks' = [locks EXCEPT ![lk[t]] = TRUE]
    /\ pc' = [pc EXCEPT ![t] = BodyStart(call[t].op)]
    /\ UNCHANGED <<file_lock, lk, call, result, fsVars, hist, unlinks, rmVars, renVars>>

\* the code after the yield: it runs only when the with body returned
LockRelease(t) ==
    /\ pc[t] = "lock_release"
    /\ IF file_lock # 0 /\ ReleaseRaises(file_lock)
       THEN /\ result' = [result EXCEPT ![t] = "RuntimeError"]
            /\ UNCHANGED locks
       ELSE /\ result' = [result EXCEPT ![t] = "ok"]
            /\ locks' = IF file_lock = 0 THEN locks
                        ELSE [locks EXCEPT ![file_lock] = FALSE]
    /\ pc' = [pc EXCEPT ![t] = "done"]
    /\ UNCHANGED <<file_lock, lk, call, fsVars, hist, unlinks, rmVars, renVars>>

\* An exception of the with body is thrown into the generator at its yield,
\* which has no try/finally: the generator ends there and the exception
\* goes on to the caller.
PcAfterRaise == "done"

\* ------------------------------------------------------------ makePath
MkIsdir(t) ==
    /\ pc[t] = "mk_isdir"
    /\ pc' = [pc EXCEPT ![t] = IF IsDir(call[t].path) THEN "lock_release"
                                ELSE "mk_makedirs"]
    /\ UNCHANGED <<lockVars, call, result, fsVars, hist, unlinks, rmVars, renVars>>

\* os.makedirs(path): it fails on an existing path, and the platform may
\* refuse it (a read-only or forbidden parent)
MkMakedirs(t) ==
    /\ pc[t] = "mk_makedirs"
    /\ \E refused \in BOOLEAN :
        IF refused \/ exists[call[t].path]
        THEN /\ pc' = [pc EXCEPT ![t] = PcAfterRaise]
             /\ result' = [result EXCEPT ![t] = "OSError"]
             /\ UNCHANGED exists
        ELSE /\ pc' = [pc EXCEPT ![t] = "lock_release"]
             /\ exists' = [exists EXCEPT ![call[t].path] = TRUE]
             /\ UNCHANGED result
    /\ UNCHANGED <<lockVars, call, failsLeft, hist, unlinks, rmVars, renVars>>

\* ---------------------------------------------------------- deleteFile
ShouldUnlinkAnyEntry(must_exist, p) == must_exist \/ exists[p]

\* must_exist or os.path.isfile(path)
ShouldUnlink(must_exist, p) == must_exist \/ IsFile(p)

DelCheck(t) ==
    /\ pc[t] = "del_check"
    /\ pc' = [pc EXCEPT ![t] = IF ShouldUnlink(call[t].flag, call[t].path)
                                THEN "del_unlink" ELSE "lock_release"]
    /\ UNCHANGED <<lockVars, call, result, fsVars, hist, unlinks, rmVars, renVars>>

\* os.unlink(path): NotFound on an absent path, an error on a directory
DelUnlink(t) ==
    /\ pc[t] = "del_unlink"
    /\ LET p == call[t].path IN
        IF ~exists[p] \/ p \notin Files \/ failsLeft[p] > 0
        THEN /\ pc' = [pc EXCEPT ![t] = PcAfterRaise]
             /\ result' = [result EXCEPT ![t] =
                              IF ~exists[p] THEN "NotFound" ELSE "OSError"]
             /\ failsLeft' = IF exists[p] /\ p \in Files
                             THEN [failsLeft EXCEPT ![p] = @ - 1] ELSE failsLeft
             /\ UNCHANGED exists
        ELSE /\ pc' = [pc EXCEPT ![t] = "lock_release"]
             /\ exists' = [exists EXCEPT ![p] = FALSE]
             /\ UNCHANGED <<result, failsLeft>>
    /\ unlinks' = [unlinks EXCEPT ![t] = @ + 1]
    /\ UNCHANGED <<lockVars, call, hist, rmVars, renVars>>

\* ----------------------------------------------------- removeDirectory
\* the path an rmtree position works on
EntryAt(i) == IF i \in Files THEN i ELSE 0

\* the call of position i (os.listdir for 0, a delete otherwise) fails
AttemptFails(i) == IF i = 0 THEN ~exists[0] ELSE DeleteFails(EntryAt(i))

AttemptError(i) == DeleteError(EntryAt(i))

\* rmtree's next position after i, over the listed names nm
NextIdx(i, nm) ==
    IF \E j \in nm : j > i
    THEN CHOOSE j \in nm : j > i /\ \A k \in nm : k > i => j <= k
    ELSE RmDirIdx

\* the filesystem and the history after the call of position i
AttemptEffects(i) ==
    /\ exists' = IF i = 0 THEN exists ELSE ExistsAfterDelete(EntryAt(i))
    /\ failsLeft' = IF i = 0 THEN failsLeft ELSE FailsLeftAfterDelete(EntryAt(i))
    /\ log' = IF i = 0 THEN log
              ELSE [log EXCEPT ![EntryAt(i)] =
                       Append(@, IF DeleteFails(EntryAt(i)) THEN "F" ELSE "S")]

\* rmtree goes on after position i: the next entry, or it returns
Advance(t, i, nm) ==
    IF i = RmDirIdx
    THEN /\ pc' = [pc EXCEPT ![t] = "lock_release"]
         /\ UNCHANGED idx
    ELSE /\ pc' = [pc EXCEPT ![t] = "rm_try"]
         /\ idx' = [idx EXCEPT ![t] = NextIdx(i, nm)]

RmExists(t) ==
    /\ pc[t] = "rm_exists"
    /\ IF exists[call[t].path]
       THEN /\ pc' = [pc EXCEPT ![t] = "rm_try"]
            /\ pass' = [pass EXCEPT ![t] = 1]
            /\ idx' = [idx EXCEPT ![t] = 0]
            /\ names' = [names EXCEPT ![t] = {}]
       ELSE /\ pc' = [pc EXCEPT ![t] = "lock_release"]
            /\ UNCHANGED <<pass, idx, names>>
    /\ UNCHANGED <<lockVars, call, result, fsVars, hist, unlinks, log, sleeps, renVars>>

\* rmtree's own call of a position; a failure goes to onerror: onError in the
\* first rmtree, nothing (ignore_errors) in the second
RmTry(t) ==
    /\ pc[t] = "rm_try"
    /\ LET i == idx[t]
           nm == IF i = 0 /\ ~AttemptFails(0)
                 THEN {f \in Files : exists[f]} ELSE names[t]
       IN /\ AttemptEffects(i)
          /\ names' = [names EXCEPT ![t] = nm]
          /\ IF AttemptFails(i) /\ pass[t] = 1
             THEN /\ pc' = [pc EXCEPT ![t] = "rm_retry"]
                  /\ UNCHANGED idx
             ELSE Advance(t, i, nm)
    /\ UNCHANGED <<lockVars, call, result, hist, unlinks, pass, sleeps, renVars>>

OnErrorNoDelayedRetry(failed) == IF failed THEN "rm_except" ELSE "rm_final"

\* onError: try: func(path) / except OSError: time.sleep(0.1) / func(path)
OnErrorAfterRetry(failed) == IF failed THEN "rm_sleep" ELSE "rm_final"

RmRetry(t) ==
    /\ pc[t] = "rm_retry"
    /\ AttemptEffects(idx[t])
    /\ pc' = [pc EXCEPT ![t] = OnErrorAfterRetry(AttemptFails(idx[t]))]
    /\ result' = [result EXCEPT ![t] =
                     IF AttemptFails(idx[t]) THEN AttemptError(idx[t]) ELSE @]
    /\ UNCHANGED <<lockVars, call, hist, unlinks, names, idx, pass, sleeps, renVars>>

RmSleep(t) ==
    /\ pc[t] = "rm_sleep"
    /\ sleeps' = [sleeps EXCEPT ![EntryAt(idx[t])] = @ + 1]
    /\ pc' = [pc EXCEPT ![t] = "rm_final"]
    /\ result' = [result EXCEPT ![t] = "none"]
    /\ UNCHANGED <<lockVars, call, fsVars, hist, unlinks, names, idx, pass, log, renVars>>

\* onError's last line: its failure leaves onError and rmtree
RmFinal(t) ==
    /\ pc[t] = "rm_final"
    /\ AttemptEffects(idx[t])
    /\ IF AttemptFails(idx[t])
       THEN /\ pc' = [pc EXCEPT ![t] = "rm_except"]
            /\ result' = [result EXCEPT ![t] = AttemptError(idx[t])]
            /\ UNCHANGED idx
       ELSE /\ Advance(t, idx[t], names[t])
            /\ UNCHANGED result
    /\ UNCHANGED <<lockVars, call, hist, unlinks, names, pass, sleeps, renVars>>

HandlerAlwaysRaises(ignore_errors) == FALSE

\* except OSError: if ignore_errors: rmtree(path, ignore_errors) else: raise
SecondPassRuns(ignore_errors) == ignore_errors

RmExcept(t) ==
    /\ pc[t] = "rm_except"
    /\ IF SecondPassRuns(call[t].flag)
       THEN /\ pc' = [pc EXCEPT ![t] = "rm_try"]
            /\ pass' = [pass EXCEPT ![t] = 2]
            /\ idx' = [idx EXCEPT ![t] = 0]
            /\ names' = [names EXCEPT ![t] = {}]
            /\ result' = [result EXCEPT ![t] = "none"]
       ELSE /\ pc' = [pc EXCEPT ![t] = PcAfterRaise]
            /\ UNCHANGED <<pass, idx, names, result>>
    /\ UNCHANGED <<lockVars, call, fsVars, hist, unlinks, log, sleeps, renVars>>

\* ------------------------------------------------- the lock-protected system
Step(t) ==
    \/ Call(t)
    \/ LockCheck(t)
    \/ LockCreate(t)
    \/ LockLoad(t)
    \/ LockAcquire(t)
    \/ LockRelease(t)
    \/ MkIsdir(t)
    \/ MkMakedirs(t)
    \/ DelCheck(t)
    \/ DelUnlink(t)
    \/ RmExists(t)
    \/ RmTry(t)
    \/ RmRetry(t)
    \/ RmSleep(t)
    \/ RmFinal(t)
    \/ RmExcept(t)

Next == \E t \in Threads : Step(t)

NoFile == [content |-> 0, mode |-> 0]

\* the tree a program can find: a file exists only inside its directory; an
\* entry that is absent has no failures planned
TreeStates ==
    {e \in [Paths -> BOOLEAN] : (\E f \in Files : e[f]) => e[0]}

InitLock(started, created, plans) ==
    /\ \E pre \in created :
        /\ file_lock = IF pre THEN 1 ELSE 0
        /\ locks = IF pre THEN <<FALSE>> ELSE << >>
    /\ pc = [t \in Threads |-> IF t \in started THEN "idle" ELSE "off"]
    /\ call = [t \in Threads |-> NoCall]
    /\ lk = [t \in Threads |-> 0]
    /\ result = [t \in Threads |-> "none"]
    /\ exists \in TreeStates
    /\ failsLeft \in plans
    /\ \A e \in Entries : ~exists[e] => failsLeft[e] = 0
    /\ plan = failsLeft
    /\ exists0 = exists
    /\ unlinks = [t \in Threads |-> 0]
    /\ names = [t \in Threads |-> {}]
    /\ idx = [t \in Threads |-> 0]
    /\ pass = [t \in Threads |-> 0]
    /\ log = [e \in Entries |-> << >>]
    /\ sleeps = [e \in Entries |-> 0]
    /\ rpc = "off"
    /\ rfs = [src |-> NoFile, dst |-> NoFile]
    /\ old_stat = 0
    /\ rres = "none"
    /\ src0 = NoFile
    /\ rsteps = << >>

\* one caller, one call, every plan of failures; the lock may exist already
InitSeq == InitLock({1}, BOOLEAN, [Entries -> 0..MaxFails])

SpecSeq == InitSeq /\ [][Next]_vars

\* several threads, one call each, the first calls of the process: every
\* entry deletes at once, or every entry keeps failing
Init == InitLock(Threads, {FALSE}, [Entries -> {0, MaxFails}])

Spec == Init /\ [][Next]_vars

\* a runnable thread is eventually scheduled
FairSpec == Spec /\ \A t \in Threads : WF_vars(Step(t))

\* ---------------------------------------------------------- renameFile
Modes == 1..NumModes
Contents == 1..NumContents
\* a file has a mode; content 0 is an empty or partly written file
RegularFiles == [content : Contents, mode : Modes]
FileExists(f) == f.mode # 0
Has(s, x) == \E i \in 1..Len(s) : s[i] = x

\* old_stat = os.stat(source_filename)
RnStat ==
    /\ rpc = "stat"
    /\ IF FileExists(rfs.src)
       THEN /\ old_stat' = rfs.src.mode
            /\ rpc' = "rename"
            /\ rsteps' = Append(rsteps, "stat+")
            /\ UNCHANGED rres
       ELSE /\ rres' = "NotFound"
            /\ rpc' = "done"
            /\ rsteps' = Append(rsteps, "stat-")
            /\ UNCHANGED old_stat
    /\ UNCHANGED <<lockVars, thrVars, fsVars, hist, unlinks, rmVars, rfs, src0>>

\* os.rename(source_filename, dest_filename): atomic, or refused (another
\* volume, an existing destination on Windows)
RnRename ==
    /\ rpc = "rename"
    /\ \E refused \in BOOLEAN :
        IF refused
        THEN /\ rpc' = "copy"
             /\ rsteps' = Append(rsteps, "rename-")
             /\ UNCHANGED rfs
        ELSE /\ rpc' = "chmod"
             /\ rsteps' = Append(rsteps, "rename+")
             /\ rfs' = [src |-> NoFile, dst |-> rfs.src]
    /\ UNCHANGED <<lockVars, thrVars, fsVars, hist, unlinks, rmVars, old_stat, rres, src0>>

AfterCopyAlwaysUnlinks(copied) == "unlink"

\* except OSError: shutil.copyfile(...) / os.unlink(...): a failed copy raises
AfterCopy(copied) == IF copied THEN "unlink" ELSE "done"

\* shutil.copyfile copies the content, not the mode: an existing destination
\* keeps its mode, a new one gets the mode the process creates files with.
\* A failed copy leaves the destination as it was or partly written.
RnCopy ==
    /\ rpc = "copy"
    /\ \E copied \in BOOLEAN : \E m \in Modes : \E opened \in BOOLEAN :
        LET dmode == IF FileExists(rfs.dst) THEN rfs.dst.mode ELSE m IN
        /\ rfs' = IF copied
                  THEN [rfs EXCEPT !.dst = [content |-> rfs.src.content, mode |-> dmode]]
                  ELSE IF opened
                       THEN [rfs EXCEPT !.dst = [content |-> 0, mode |-> dmode]]
                       ELSE rfs
        /\ rpc' = AfterCopy(copied)
        /\ rres' = IF AfterCopy(copied) = "done" THEN "OSError" ELSE rres
        /\ rsteps' = Append(rsteps, IF copied THEN "copyfile+" ELSE "copyfile-")
    /\ UNCHANGED <<lockVars, thrVars, fsVars, hist, unlinks, rmVars, old_stat, src0>>

\* os.unlink(source_filename)
RnUnlink ==
    /\ rpc = "unlink"
    /\ \E refused \in BOOLEAN :
        IF refused
        THEN /\ rpc' = "done"
             /\ rres' = "OSError"
             /\ rsteps' = Append(rsteps, "unlink-")
             /\ UNCHANGED rfs
        ELSE /\ rpc' = "chmod"
             /\ rsteps' = Append(rsteps, "unlink+")
             /\ rfs' = [rfs EXCEPT !.src = NoFile]
             /\ UNCHANGED rres
    /\ UNCHANGED <<lockVars, thrVars, fsVars, hist, unlinks, rmVars, old_stat, src0>>

ChmodKeepsMode(captured, current) == current

\* os.chmod(dest_filename, old_stat.st_mode)
ChmodMode(captured, current) == captured

RnChmod ==
    /\ rpc = "chmod"
    /\ \E refused \in BOOLEAN :
        IF refused \/ ~FileExists(rfs.dst)
        THEN /\ rres' = "OSError"
             /\ rsteps' = Append(rsteps, "chmod-")
             /\ UNCHANGED rfs
        ELSE /\ rres' = "ok"
             /\ rsteps' = Append(rsteps, "chmod+")
             /\ rfs' = [rfs EXCEPT !.dst.mode = ChmodMode(old_stat, rfs.dst.mode)]
    /\ rpc' = "done"
    /\ UNCHANGED <<lockVars, thrVars, fsVars, hist, unlinks, rmVars, old_stat, src0>>

NextRename == RnStat \/ RnRename \/ RnCopy \/ RnUnlink \/ RnChmod

\* one call of renameFile, on every source and destination
InitRename ==
    /\ file_lock = 0
    /\ locks = << >>
    /\ pc = [t \in Threads |-> "off"]
    /\ call = [t \in Threads |-> NoCall]
    /\ lk = [t \in Threads |-> 0]
    /\ result = [t \in Threads |-> "none"]
    /\ exists = [p \in Paths |-> FALSE]
    /\ failsLeft = [e \in Entries |-> 0]
    /\ plan = failsLeft
    /\ exists0 = exists
    /\ unlinks = [t \in Threads |-> 0]
    /\ names = [t \in Threads |-> {}]
    /\ idx = [t \in Threads |-> 0]
    /\ pass = [t \in Threads |-> 0]
    /\ log = [e \in Entries |-> << >>]
    /\ sleeps = [e \in Entries |-> 0]
    /\ rpc = "stat"
    /\ rfs \in [src : RegularFiles \cup {NoFile}, dst : RegularFiles \cup {NoFile}]
    /\ old_stat = 0
    /\ rres = "none"
    /\ src0 = rfs.src
    /\ rsteps = << >>

SpecRename == InitRename /\ [][NextRename]_vars

\* ------------------------------------------------------------- claims
Done(t) == pc[t] = "done"

\* C1: at most one thread is between acquiring and releasing the process
\* lock at any time, in every interleaving, the racing first calls included.
C1_MutualExclusion ==
    \A t1, t2 \in Threads : InBody(t1) /\ InBody(t2) => t1 = t2

\* a call the claim is about (or none yet): makePath of the unrelated
\* directory, removeDirectory of the tree
UnrelatedCall(t) ==
    \/ call[t] = NoCall
    \/ call[t].op = "makePath" /\ call[t].path = UPath
    \/ call[t].op = "removeDirectory"

\* C2: when threads concurrently call makePath and removeDirectory on
\* unrelated paths, under fair scheduling every call eventually acquires the process lock
\* and finishes, whatever the outcome of the calls that ran before it.
C2_EveryCallFinishes ==
    <>((\A t \in Threads : Done(t)) \/ (\E t \in Threads : ~UnrelatedCall(t)))

\* C3: a lock is held only while a lock-protected operation is in progress:
\* once a call has returned or raised, the lock is not held.
C3_LockReleasedOnExit ==
    \A l \in 1..Len(locks) : locks[l] => \E t \in Threads : InBody(t)

\* C4: at most one lock object is ever created.
C4_SingletonLock == Len(locks) <= 1

\* the deletes of entry e failed on the initial attempt, the immediate retry
\* and the delayed retry
Exhausted(e) ==
    Len(log[e]) >= 3 /\ log[e][1] = "F" /\ log[e][2] = "F" /\ log[e][3] = "F"

\* entry f fails exactly twice, every other entry deletes at once
TwoFailuresOn(f) ==
    plan[f] = 2 /\ \A e \in Entries : e # f => plan[e] = 0

\* C5: removeDirectory(path, ignore_errors=False) on a directory with a file
\* whose delete fails exactly twice and then succeeds returns without error,
\* leaves no entry of the tree, sleeps exactly once (100 ms) on that file, and
\* runs no second, error-suppressed pass.
C5_TwoFailuresThenSuccess ==
    \A t \in Threads : \A f \in Files :
        (Done(t) /\ call[t].op = "removeDirectory" /\ ~call[t].flag
                 /\ TwoFailuresOn(f))
        => /\ result[t] = "ok"
           /\ \A e \in Entries : ~exists[e]
           /\ log[f] = <<"F", "F", "S">>
           /\ SleepMs * sleeps[f] = 100
           /\ \A e \in Entries : e # f => sleeps[e] = 0
           /\ pass[t] = 1

C5_Witness ==
    \E t \in Threads : \E f \in Files :
        /\ Done(t) /\ call[t].op = "removeDirectory" /\ ~call[t].flag
        /\ TwoFailuresOn(f) /\ sleeps[f] = 1 /\ result[t] = "ok"
        /\ \E g \in Files : g # f /\ exists0[g]

\* C6: no delete is attempted on an entry after a delete of that entry has
\* succeeded; an entry whose delete fails once and succeeds on the immediate
\* retry is handled with no further delete, without sleeping and without an
\* error leaving the handler.
C6_RetryProtocol ==
    \A e \in Entries :
        /\ \A i \in 1..Len(log[e]) : log[e][i] = "S" => i = Len(log[e])
        /\ (Len(log[e]) >= 2 /\ log[e][1] = "F" /\ log[e][2] = "S")
           => \A t \in Threads : pc[t] # "rm_except"

\* C7: once an entry's retries are exhausted, ignore_errors=True runs exactly
\* one more pass with the errors suppressed (one more delete of that entry)
\* and returns without error even if entries remain; ignore_errors=False runs
\* no further pass and the error reaches the caller. removeDirectory(path,
\* ignore_errors=True) never returns an error.
C7_Escalation ==
    \A t \in Threads :
        (Done(t) /\ call[t].op = "removeDirectory")
        => IF call[t].flag
           THEN /\ result[t] = "ok"
                /\ \A e \in Entries :
                      Exhausted(e) => pass[t] = 2 /\ Len(log[e]) = 4
           ELSE /\ pass[t] <= 1
                /\ \A e \in Entries :
                      Exhausted(e) => result[t] = "OSError" /\ Len(log[e]) = 3

C7_Witness ==
    \E t \in Threads : \E e \in Entries :
        /\ Done(t) /\ call[t].op = "removeDirectory" /\ call[t].flag
        /\ Exhausted(e) /\ exists[e] /\ pass[t] = 2 /\ result[t] = "ok"

\* C9: deleteFile attempts one unlink if must_exist is true or the path is a
\* regular file; otherwise it does nothing, leaves the filesystem unchanged
\* and returns without error. NotFound reaches the caller only when
\* must_exist is true and the path does not exist.
C9_DeleteFile ==
    \A t \in Threads :
        (Done(t) /\ call[t].op = "deleteFile")
        => LET p == call[t].path
               wasFile == p \in Files /\ exists0[p]
           IN /\ (call[t].flag \/ wasFile) => unlinks[t] = 1
              /\ ~(call[t].flag \/ wasFile)
                 => /\ unlinks[t] = 0
                    /\ exists = exists0
                    /\ failsLeft = plan
                    /\ result[t] = "ok"
              /\ result[t] = "NotFound" => call[t].flag /\ ~exists0[p]

C9_Witness ==
    \E t \in Threads :
        /\ Done(t) /\ call[t].op = "deleteFile" /\ ~call[t].flag
        /\ call[t].path \notin Files /\ exists0[call[t].path]
        /\ unlinks[t] = 0 /\ result[t] = "ok"

\* C8: when renameFile returns without error, by the atomic rename or by the
\* fallback (copy, unlink), the destination exists with the source's content
\* and the mode captured from the source, and the source no longer exists.
C8_RenameResult ==
    (rpc = "done" /\ rres = "ok")
    => /\ FileExists(rfs.dst)
       /\ rfs.dst.content = src0.content
       /\ rfs.dst.mode = src0.mode
       /\ ~FileExists(rfs.src)

C8_Witness ==
    /\ rpc = "done" /\ rres = "ok"
    /\ rsteps = <<"stat+", "rename-", "copyfile+", "unlink+", "chmod+">>
    /\ rfs.dst = src0

\* the source's content is at the source path or at the destination path
ContentKept ==
    \/ FileExists(rfs.src) /\ rfs.src = src0
    \/ FileExists(rfs.dst) /\ rfs.dst.content = src0.content

\* C10: at every step of renameFile the source's content exists at the source
\* or at the destination; the source is unlinked only after a successful copy;
\* a failed copy raises with the source in place and no unlink or chmod; a
\* failed stat raises before any other call.
C10_NoDataLoss ==
    /\ FileExists(src0) => ContentKept
    /\ (Has(rsteps, "unlink+") \/ Has(rsteps, "unlink-"))
       => Has(rsteps, "copyfile+")
    /\ Has(rsteps, "copyfile-")
       => /\ rpc = "done" /\ rres = "OSError"
          /\ rfs.src = src0
          /\ rsteps = <<"stat+", "rename-", "copyfile-">>
    /\ Has(rsteps, "stat-")
       => rpc = "done" /\ rres = "NotFound" /\ rsteps = <<"stat-">>

C10_Witness ==
    /\ rpc = "done" /\ rres = "OSError"
    /\ Has(rsteps, "copyfile-")
    /\ FileExists(rfs.dst) /\ rfs.dst.content = 0
    /\ rfs.src = src0

====
